---- MODULE Spec2Model ----
(***************************************************************************)
(* Model of src/main.py: the CV Generator API.                             *)
(*                                                                         *)
(* Each request runs one handler (health_check, generate_cv or             *)
(* test_compile).  A handler is cut into steps at its blocking outbound    *)
(* calls: the database RPC, and the four calls of compile_latex_to_pdf     *)
(* (create gist, verify raw url, compile, delete gist).  Everything the    *)
(* code does between two outbound calls belongs to the step of the call    *)
(* that precedes it, the handler's own try/except and its reply included.  *)
(*                                                                         *)
(* The snippet host is modelled by the gists it holds (id -> content) and  *)
(* the next id it hands out; a 201 answer of the host carries the id and   *)
(* the raw url of the gist it created, as the host's API documents, so     *)
(* lines 69-71 always find the two fields they read.                       *)
(***************************************************************************)
EXTENDS Integers, Sequences, FiniteSets, TLC

\* ---------------------------------------------------------------- bounds
\* The number of requests in flight at the same time.
NumRequests == 1

Requests == 1..NumRequests

\* Two requests in flight at the same time.
ConcurrentRequests == {1, 2}

\* ---------------------------------------------------------------- values
\* os.getenv returns None for an unset variable, a string otherwise.
TokenValues == {"None", "", "ghp_token"}

\* A LaTeX text is a sequence of lines; the database holds one of two
\* different documents when it is asked.
Payloads == {<<"\\documentclass{cv}", "A">>,
             <<"\\documentclass{cv}", "B", "B">>}

\* response.data of the database RPC: None, or a text (possibly empty).
DbData == {[none |-> TRUE, text |-> <<>>]} \cup
          {[none |-> FALSE, text |-> t] : t \in Payloads \cup {<<>>}}

\* Outcome of supabase.rpc('get_latex').execute(): data, or an exception.
RpcOutcomes == {[raised |-> FALSE, data |-> d] : d \in DbData} \cup
               {[raised |-> TRUE, data |-> [none |-> TRUE, text |-> <<>>]]}

\* Outcomes of the outbound HTTP calls: a status code, or 0 for an
\* exception raised by requests (timeout, connection error).
CreateStatuses  == {201, 401, 0}
VerifyStatuses  == {200, 404, 0}
CompileStatuses == {200, 400, 0}
DeleteStatuses  == {204, 404, 0}

NoGist == 0
NoUrl == [gist |-> NoGist, file |-> ""]

\* The outcome of a call: nothing yet, a returned value, or an exception.
NoOutcome == [kind |-> "none", content |-> <<>>, type |-> "",
              status_code |-> 0, msg |-> "", arg |-> 0]
Return(content) == [kind |-> "return", content |-> content, type |-> "",
                    status_code |-> 0, msg |-> "", arg |-> 0]
Raise(type, code, msg, arg) == [kind |-> "raise", content |-> <<>>,
                                type |-> type, status_code |-> code,
                                msg |-> msg, arg |-> arg]
HTTPException(code, msg, arg) == Raise("HTTPException", code, msg, arg)
RequestException(where) == Raise("RequestException", 0, where, 0)
RpcError == Raise("APIError", 0, "get_latex", 0)

\* str(e): an HTTPException prints as "<status_code>: <detail>", any other
\* exception as its message.
NoText == [code |-> 0, msg |-> "", arg |-> 0]
Str(e) == IF e.type = "HTTPException"
          THEN [code |-> e.status_code, msg |-> e.msg, arg |-> e.arg]
          ELSE [code |-> 0, msg |-> e.msg, arg |-> e.arg]

\* The compiler's answer for a document: a PDF of that document.
Pdf(text) == <<"%PDF">> \o text

SimpleLatex == <<"\\documentclass{article}", "\\begin{document}",
                 "Hello World!", "\\end{document}">>

\* ---------------------------------------------------------------- replies
NoReply == [status |-> 0, media |-> "", content |-> <<>>, field |-> "",
            text |-> NoText, json_status |-> "", latex_length |-> 0]
StreamingResponse(content) ==
    [NoReply EXCEPT !.status = 200, !.media = "application/pdf",
                    !.content = content]
\* An HTTPException leaving a handler is answered by the framework with its
\* status code and {"detail": detail}.
HTTPError(code, text) ==
    [NoReply EXCEPT !.status = code, !.media = "application/json",
                    !.field = "detail", !.text = text]
\* A dict returned by a handler is answered as JSON with status 200.
JsonError(field, text) ==
    [NoReply EXCEPT !.status = 200, !.media = "application/json",
                    !.field = field, !.text = text]
\* An exception that is no HTTPException and leaves a handler.
Unhandled(e) ==
    [NoReply EXCEPT !.status = 500, !.media = "text/plain",
                    !.field = "unhandled", !.text = Str(e)]

VARIABLES GITHUB_TOKEN, gists, nextId,
          pc, handler, rpc_response, latex_code, gist_id, raw_url,
          pending, result, reply, calls

vars == <<GITHUB_TOKEN, gists, nextId, pc, handler, rpc_response,
          latex_code, gist_id, raw_url, pending, result, reply, calls>>

hostVars == <<gists, nextId>>

\* The requests in flight.
Procs == DOMAIN pc

\* After import: the token is read from the environment, nothing has been
\* sent to the host, and the requests of R have not been handled yet.
InitWith(R) ==
    /\ GITHUB_TOKEN \in TokenValues
    /\ gists = [i \in {} |-> <<>>]
    /\ nextId = 1
    /\ pc = [r \in R |-> "idle"]
    /\ handler = [r \in R |-> ""]
    /\ rpc_response = [r \in R |-> [raised |-> FALSE,
                          data |-> [none |-> TRUE, text |-> <<>>]]]
    /\ latex_code = [r \in R |-> <<>>]
    /\ gist_id = [r \in R |-> NoGist]
    /\ raw_url = [r \in R |-> NoUrl]
    /\ pending = [r \in R |-> NoOutcome]
    /\ result = [r \in R |-> NoOutcome]
    /\ reply = [r \in R |-> NoReply]
    /\ calls = [r \in R |-> <<>>]

Init == InitWith(Requests)

InitConcurrent == InitWith(ConcurrentRequests)

\* ------------------------------------------------- compile_latex_to_pdf
\* (variant: `if GITHUB_TOKEN == ""`, which lets None through)
TokenMissingEmptyOnly(tok) == tok = ""

\* `if not GITHUB_TOKEN`: None and the empty string are both falsy.
TokenMissing(tok) == tok \in {"None", ""}

\* (variant: only server error statuses count as a failure)
CreateFailedOnError(status) == status >= 500

\* `if gist_response.status_code != 201`
CreateFailed(status) == status # 201

\* (variant: the status of the verify fetch is not checked)
VerifyFailedNever(status) == FALSE

\* `if check_response.status_code != 200`
VerifyFailed(status) == status # 200

\* `if pdf_response.status_code != 200`
CompileFailed(status) == status # 200

\* (variant: the delete follows the try block only when it returned)
DeletesOnReturnOnly(p) == p.kind = "return"

\* try ... finally: the finally block runs whether the try block returned
\* or raised.
FinallyDeletes(p) == p.kind \in {"return", "raise"}

\* (variant: raw_url kept in a module-level variable, which holds the url
\* of the gist created last by any request)
CompileUrlLatest(r) == [gist |-> nextId - 1, file |-> "document.tex"]

\* The arguments of the three calls made on the created gist.
VerifyUrl(r) == raw_url[r]
CompileUrl(r) == raw_url[r]
DeleteTarget(r) == gist_id[r]

\* What leaves the function after the finally block: requests.delete is
\* not guarded and its status is not read, so a status of any kind leaves
\* the pending return value or exception in place, and an exception raised
\* by requests.delete replaces it.
AfterFinally(p, status) ==
    IF status = 0 THEN RequestException("delete") ELSE p

Call(ep, gist, content, status) ==
    [ep |-> ep, gist |-> gist, content |-> content, status |-> status]

\* --------------------------------------------------------------- handlers
\* (variant: `response.data is None`, which lets the empty text through)
DataEmptyNoneOnly(data) == data.none

\* `not response.data`
DataEmpty(data) == data.none \/ data.text = <<>>

\* `len(response.data) if response.data else 0`
LatexLength(data) == IF DataEmpty(data) THEN 0 ELSE Len(data.text)

\* (variant: the RPC made outside the try block)
HealthReplyNoCatch(out) ==
    IF out.raised
    THEN Unhandled(RpcError)
    ELSE [NoReply EXCEPT !.status = 200, !.media = "application/json",
                         !.field = "supabase", !.json_status = "ok",
                         !.latex_length = LatexLength(out.data)]

\* health_check: try / except Exception around the RPC and the reply.
HealthReply(out) ==
    IF out.raised
    THEN [NoReply EXCEPT !.status = 200, !.media = "application/json",
                         !.field = "message", !.text = Str(RpcError),
                         !.json_status = "error"]
    ELSE [NoReply EXCEPT !.status = 200, !.media = "application/json",
                         !.field = "supabase", !.json_status = "ok",
                         !.latex_length = LatexLength(out.data)]

\* (variant: `except HTTPException: raise` ahead of the catch-all)
GenerateCvReraise(e) ==
    IF e.type = "HTTPException"
    THEN HTTPError(e.status_code, [code |-> 0, msg |-> e.msg, arg |-> e.arg])
    ELSE HTTPError(500, Str(e))

\* generate_cv: `except Exception as e: raise HTTPException(500, str(e))`;
\* HTTPException is an Exception, so it is caught as well.
GenerateCvCatch(e) == HTTPError(500, Str(e))

\* (variant: the error re-raised as an HTTPException, as generate_cv does)
TestCompileReraise(e) == HTTPError(500, Str(e))

\* test_compile: `except Exception as e: return {"error": str(e)}`
TestCompileCatch(e) == JsonError("error", Str(e))

\* The reply of a PDF handler to the outcome o of its try block.
HandlerReply(h, o) ==
    IF o.kind = "return"
    THEN StreamingResponse(o.content)
    ELSE IF h = "generate_cv" THEN GenerateCvCatch(o)
                              ELSE TestCompileCatch(o)

\* compile_latex_to_pdf ends with outcome o and handler h replies.
Finish(r, h, o) ==
    /\ result' = [result EXCEPT ![r] = o]
    /\ reply' = [reply EXCEPT ![r] = HandlerReply(h, o)]
    /\ pc' = [pc EXCEPT ![r] = "done"]

\* Entry of compile_latex_to_pdf(text), up to its first outbound call.
Enter(r, h, text) ==
    /\ latex_code' = [latex_code EXCEPT ![r] = text]
    /\ IF TokenMissing(GITHUB_TOKEN)
       THEN Finish(r, h, HTTPException(500, "GITHUB_TOKEN no configurado", 0))
       ELSE /\ pc' = [pc EXCEPT ![r] = "create"]
            /\ UNCHANGED <<result, reply>>

\* debug_latex: try / except Exception around the RPC and the reply.
DebugReply(out) ==
    IF out.raised
    THEN [NoReply EXCEPT !.status = 200, !.media = "application/json",
                         !.field = "error", !.text = Str(RpcError),
                         !.json_status = "failure"]
    ELSE [NoReply EXCEPT !.status = 200, !.media = "application/json",
                         !.field = "data", !.content = out.data.text,
                         !.json_status = "success",
                         !.latex_length = LatexLength(out.data)]

\* root: static metadata.
RootReply == [NoReply EXCEPT !.status = 200, !.media = "application/json",
                             !.field = "message"]

\* ---------------------------------------------------------------- actions
root(r) ==
    /\ pc[r] = "idle"
    /\ handler' = [handler EXCEPT ![r] = "root"]
    /\ reply' = [reply EXCEPT ![r] = RootReply]
    /\ pc' = [pc EXCEPT ![r] = "done"]
    /\ UNCHANGED <<GITHUB_TOKEN, hostVars, rpc_response, latex_code, gist_id,
                   raw_url, pending, result, calls>>

debug_latex(r) ==
    /\ pc[r] = "idle"
    /\ \E out \in RpcOutcomes :
         /\ rpc_response' = [rpc_response EXCEPT ![r] = out]
         /\ reply' = [reply EXCEPT ![r] = DebugReply(out)]
    /\ handler' = [handler EXCEPT ![r] = "debug_latex"]
    /\ pc' = [pc EXCEPT ![r] = "done"]
    /\ UNCHANGED <<GITHUB_TOKEN, hostVars, latex_code, gist_id, raw_url,
                   pending, result, calls>>

health_check(r) ==
    /\ pc[r] = "idle"
    /\ \E out \in RpcOutcomes :
         /\ rpc_response' = [rpc_response EXCEPT ![r] = out]
         /\ reply' = [reply EXCEPT ![r] = HealthReply(out)]
    /\ handler' = [handler EXCEPT ![r] = "health_check"]
    /\ pc' = [pc EXCEPT ![r] = "done"]
    /\ UNCHANGED <<GITHUB_TOKEN, hostVars, latex_code, gist_id, raw_url,
                   pending, result, calls>>

generate_cv(r) ==
    /\ pc[r] = "idle"
    /\ handler' = [handler EXCEPT ![r] = "generate_cv"]
    /\ \E out \in RpcOutcomes :
         /\ rpc_response' = [rpc_response EXCEPT ![r] = out]
         /\ IF out.raised
            THEN /\ reply' = [reply EXCEPT ![r] = GenerateCvCatch(RpcError)]
                 /\ pc' = [pc EXCEPT ![r] = "done"]
                 /\ UNCHANGED <<latex_code, result>>
            ELSE IF DataEmpty(out.data)
            THEN /\ reply' = [reply EXCEPT ![r] = GenerateCvCatch(
                        HTTPException(500, "get_latex() no devolvio datos", 0))]
                 /\ pc' = [pc EXCEPT ![r] = "done"]
                 /\ UNCHANGED <<latex_code, result>>
            ELSE Enter(r, "generate_cv", out.data.text)
    /\ UNCHANGED <<GITHUB_TOKEN, hostVars, gist_id, raw_url, pending, calls>>

test_compile(r) ==
    /\ pc[r] = "idle"
    /\ handler' = [handler EXCEPT ![r] = "test_compile"]
    /\ Enter(r, "test_compile", SimpleLatex)
    /\ UNCHANGED <<GITHUB_TOKEN, hostVars, rpc_response, gist_id, raw_url,
                   pending, calls>>

\* requests.post(".../gists") and lines 63-71.  The host creates the gist
\* exactly when it answers 201, and then names it in the body.
CreateGist(r) ==
    /\ pc[r] = "create"
    /\ \E status \in CreateStatuses :
         LET id == IF status = 201 THEN nextId ELSE NoGist IN
         /\ IF status = 201
            THEN /\ gists' = [i \in DOMAIN gists \cup {id} |->
                                 IF i = id THEN latex_code[r] ELSE gists[i]]
                 /\ nextId' = nextId + 1
            ELSE UNCHANGED hostVars
         /\ calls' = [calls EXCEPT ![r] =
                         Append(@, Call("create", id, latex_code[r], status))]
         /\ IF status = 0
            THEN /\ Finish(r, handler[r], RequestException("create"))
                 /\ UNCHANGED <<gist_id, raw_url>>
            ELSE IF CreateFailed(status)
            THEN /\ Finish(r, handler[r], HTTPException(500, "Error creando Gist", status))
                 /\ UNCHANGED <<gist_id, raw_url>>
            ELSE /\ gist_id' = [gist_id EXCEPT ![r] = id]
                 /\ raw_url' = [raw_url EXCEPT ![r] =
                                   [gist |-> id, file |-> "document.tex"]]
                 /\ pc' = [pc EXCEPT ![r] = "verify"]
                 /\ UNCHANGED <<result, reply>>
    /\ UNCHANGED <<GITHUB_TOKEN, handler, rpc_response, latex_code, pending>>

\* time.sleep(2), requests.get(raw_url) and lines 77-81.
VerifyGist(r) ==
    /\ pc[r] = "verify"
    /\ \E status \in VerifyStatuses :
         /\ status = 200 => VerifyUrl(r).gist \in DOMAIN gists
         /\ calls' = [calls EXCEPT ![r] =
                         Append(@, Call("verify", VerifyUrl(r).gist, <<>>, status))]
         /\ IF status = 0
            THEN /\ pending' = [pending EXCEPT ![r] = RequestException("verify")]
                 /\ pc' = [pc EXCEPT ![r] = "delete"]
            ELSE IF VerifyFailed(status)
            THEN /\ pending' = [pending EXCEPT ![r] =
                                   HTTPException(500, "Gist no accesible", status)]
                 /\ pc' = [pc EXCEPT ![r] = "delete"]
            ELSE /\ pc' = [pc EXCEPT ![r] = "compile"]
                 /\ UNCHANGED pending
    /\ UNCHANGED <<GITHUB_TOKEN, hostVars, handler, rpc_response, latex_code,
                   gist_id, raw_url, result, reply>>

\* requests.get(compile_url) and lines 86-92: the compiler fetches the
\* document behind the url it is given and answers with its PDF.
CompilePdf(r) ==
    /\ pc[r] = "compile"
    /\ \E status \in CompileStatuses :
         /\ status = 200 => CompileUrl(r).gist \in DOMAIN gists
         /\ calls' = [calls EXCEPT ![r] =
                         Append(@, Call("compile", CompileUrl(r).gist, <<>>, status))]
         /\ pending' = [pending EXCEPT ![r] =
               IF status = 0 THEN RequestException("compile")
               ELSE IF CompileFailed(status)
               THEN HTTPException(400, "LaTeX compilation failed", status)
               ELSE Return(Pdf(gists[CompileUrl(r).gist]))]
    /\ pc' = [pc EXCEPT ![r] = "delete"]
    /\ UNCHANGED <<GITHUB_TOKEN, hostVars, handler, rpc_response, latex_code,
                   gist_id, raw_url, result, reply>>

\* The finally block: requests.delete(".../gists/{gist_id}"), then the
\* function ends and the handler replies.
DeleteGist(r) ==
    /\ pc[r] = "delete"
    /\ IF FinallyDeletes(pending[r])
       THEN \E status \in DeleteStatuses :
              /\ status = 204 => DeleteTarget(r) \in DOMAIN gists
              /\ calls' = [calls EXCEPT ![r] =
                              Append(@, Call("delete", DeleteTarget(r), <<>>, status))]
              /\ gists' = IF status = 204
                          THEN [i \in DOMAIN gists \ {DeleteTarget(r)} |-> gists[i]]
                          ELSE gists
              /\ Finish(r, handler[r], AfterFinally(pending[r], status))
       ELSE /\ Finish(r, handler[r], pending[r])
            /\ UNCHANGED <<gists, calls>>
    /\ UNCHANGED <<GITHUB_TOKEN, nextId, handler, rpc_response, latex_code,
                   gist_id, raw_url, pending>>

Next ==
    \E r \in Procs :
        \/ root(r)
        \/ debug_latex(r)
        \/ health_check(r)
        \/ generate_cv(r)
        \/ test_compile(r)
        \/ CreateGist(r)
        \/ VerifyGist(r)
        \/ CompilePdf(r)
        \/ DeleteGist(r)

Spec == Init /\ [][Next]_vars

\* The same service with two requests in flight.
SpecConcurrent == InitConcurrent /\ [][Next]_vars

TypeOK ==
    /\ GITHUB_TOKEN \in TokenValues
    /\ \A r \in Procs :
        /\ pc[r] \in {"idle", "create", "verify", "compile", "delete", "done"}
        /\ Len(calls[r]) <= 4

\* ----------------------------------------------------------- vocabulary
PdfHandlers == {"generate_cv", "test_compile"}

\* The endpoints called by request r, in order.
Eps(r) == [i \in DOMAIN calls[r] |-> calls[r][i].ep]

\* The number of calls request r made to endpoint ep.
Count(r, ep) == Cardinality({i \in DOMAIN calls[r] : calls[r][i].ep = ep})

\* Request r's create call came back with 201.
Created(r) == Len(calls[r]) >= 1 /\ calls[r][1].status = 201

\* The id of the gist the host created for request r.
CreatedId(r) == calls[r][1].gist

\* Request r called compile_latex_to_pdf and the call has ended.
Completed(r) == pc[r] = "done" /\ result[r].kind # "none"

\* Request r ran a PDF handler, which ended in an error.
Errored(r) ==
    /\ pc[r] = "done"
    /\ \/ handler[r] \in PdfHandlers /\ result[r].kind = "raise"
       \/ handler[r] = "generate_cv" /\ result[r].kind = "none"

ConfigError == HTTPException(500, "GITHUB_TOKEN no configurado", 0)

\* ------------------------------------------------------------------- C1
\* C1: once the create call has returned 201, the invocation issues exactly
\* one delete call, for the id of the gist it created, before it ends, on
\* every exit path (PDF returned, verify not 200, compiler not 200, verify
\* or compile raising); the delete is the last call of the invocation.
C1_DeleteOnEveryExit ==
    \A r \in Procs :
        Created(r) =>
            /\ Count(r, "delete") <= 1
            /\ pc[r] = "done" =>
                  /\ Count(r, "delete") = 1
                  /\ calls[r][Len(calls[r])].ep = "delete"
                  /\ calls[r][Len(calls[r])].gist = CreatedId(r)

\* An invocation has ended whose compile call raised after a verify fetch
\* answered 200, and it deleted its gist last.
C1_Witness ==
    \E r \in Procs :
        /\ pc[r] = "done"
        /\ Eps(r) = <<"create", "verify", "compile", "delete">>
        /\ calls[r][3].status = 0
        /\ calls[r][4].gist = CreatedId(r)

\* ------------------------------------------------------------------- C2
\* C2: a failure of the delete call (a non-success status or an exception
\* raised by the request) is never surfaced: the invocation ends with the
\* PDF or the error that the verify/compile step produced, whatever the
\* delete call did.
C2_DeleteFailureNotSurfaced ==
    \A r \in Procs :
        (pc[r] = "done" /\ Count(r, "delete") = 1) =>
            /\ result[r] = pending[r]
            /\ reply[r] = HandlerReply(handler[r], pending[r])

\* ------------------------------------------------------------------- C3
\* C3: with GITHUB_TOKEN unset, every invocation of compile_latex_to_pdf
\* fails with the configuration error and no request makes any outbound
\* call (create, verify, compile, delete).
C3_NoTokenNoCalls ==
    GITHUB_TOKEN = "None" =>
        \A r \in Procs :
            /\ calls[r] = <<>>
            /\ pc[r] \in {"idle", "done"}
            /\ (handler[r] = "test_compile" \/
                (handler[r] = "generate_cv" /\ ~rpc_response[r].raised
                   /\ rpc_response[r].data.text # <<>>))
               => result[r] = ConfigError

\* The token is unset and generate-cv, holding a document, was refused.
C3_Witness ==
    /\ GITHUB_TOKEN = "None"
    /\ \E r \in Procs :
        /\ handler[r] = "generate_cv"
        /\ rpc_response[r].data.text # <<>>
        /\ result[r] = ConfigError

C5_EmptyDataNoPipeline ==
    \A r \in Procs :
        (/\ handler[r] = "generate_cv"
         /\ ~rpc_response[r].raised
         /\ (rpc_response[r].data.none \/ rpc_response[r].data.text = <<>>))
        =>
            /\ pc[r] = "done"
            /\ calls[r] = <<>>
            /\ result[r] = NoOutcome
            /\ reply[r].status = 500
            /\ reply[r].text.msg = "get_latex() no devolvio datos"

\* With a token set, generate-cv got the empty text from the RPC.
C5_Witness ==
    /\ GITHUB_TOKEN = "ghp_token"
    /\ \E r \in Procs :
        /\ handler[r] = "generate_cv" /\ pc[r] = "done"
        /\ ~rpc_response[r].raised /\ ~rpc_response[r].data.none
        /\ rpc_response[r].data.text = <<>>

\* ------------------------------------------------------------------- C6
\* C6: the health handler never raises: whether the RPC returns data,
\* returns an empty result or raises, the reply is a JSON body with a
\* status field, "ok" or "error", and no exception leaves the handler.
C6_HealthNeverRaises ==
    \A r \in Procs :
        (handler[r] = "health_check" /\ pc[r] = "done") =>
            /\ reply[r].field # "unhandled"
            /\ reply[r].status = 200
            /\ reply[r].json_status \in {"ok", "error"}
            /\ rpc_response[r].raised <=> reply[r].json_status = "error"

\* The health handler met a raising RPC.
C6_Witness ==
    \E r \in Procs :
        /\ handler[r] = "health_check" /\ pc[r] = "done"
        /\ rpc_response[r].raised /\ reply[r].json_status = "error"

\* ------------------------------------------------------------------- C7
\* C7: under any interleaving of concurrent generate-cv requests, each
\* request's gist holds its own payload, each request verifies, compiles
\* and deletes only the gist it created (never one another request
\* created), and each PDF reply is the PDF of the request's own payload.
C7_RequestsIsolated ==
    \A r \in Procs :
        handler[r] = "generate_cv" =>
            /\ \A i \in DOMAIN calls[r] :
                 IF calls[r][i].ep = "create"
                 THEN /\ calls[r][i].content = rpc_response[r].data.text
                      /\ calls[r][i].gist \in DOMAIN gists =>
                            gists[calls[r][i].gist] = rpc_response[r].data.text
                 ELSE /\ calls[r][i].gist = CreatedId(r)
                      /\ \A s \in Procs \ {r} :
                           Created(s) => CreatedId(s) # calls[r][i].gist
            /\ (pc[r] = "done" /\ reply[r].media = "application/pdf") =>
                  reply[r].content = Pdf(rpc_response[r].data.text)
            /\ pending[r].kind = "return" =>
                  pending[r].content = Pdf(rpc_response[r].data.text)

\* Two generate-cv requests with different payloads are in flight at the
\* same time, each holding the PDF it is about to return, before either
\* has deleted its gist.
C7_Witness ==
    \E r, s \in Procs :
        /\ r # s
        /\ handler[r] = "generate_cv" /\ handler[s] = "generate_cv"
        /\ rpc_response[r].data.text # rpc_response[s].data.text
        /\ pc[r] = "delete" /\ pc[s] = "delete"
        /\ pending[r].kind = "return" /\ pending[s].kind = "return"

\* ------------------------------------------------------------------- C8
\* C8: within one invocation the outbound calls occur only in the order
\* create, verify, compile, delete, each at most once; verify is issued
\* only after create returned 201 and compile only after verify returned
\* 200; a create failure ends the invocation with the upstream error after
\* that single call, and a verify failure ends it without a compile call.
C8_OrderAndGating ==
    \A r \in Procs :
        /\ Eps(r) \in {<<>>, <<"create">>, <<"create", "verify">>,
                       <<"create", "verify", "delete">>,
                       <<"create", "verify", "compile">>,
                       <<"create", "verify", "compile", "delete">>}
        /\ Len(calls[r]) >= 2 => calls[r][1].status = 201
        /\ Count(r, "compile") = 1 => calls[r][2].status = 200
        /\ (Len(calls[r]) >= 1 /\ calls[r][1].status \notin {201, 0}) =>
              /\ pc[r] = "done"
              /\ Len(calls[r]) = 1
              /\ result[r] = HTTPException(500, "Error creando Gist",
                                           calls[r][1].status)
        /\ (Len(calls[r]) >= 2 /\ calls[r][2].status # 200
              /\ pc[r] = "done") => Count(r, "compile") = 0

\* An invocation ended at a verify fetch answered 404.
C8_Witness ==
    \E r \in Procs :
        /\ pc[r] = "done"
        /\ Eps(r) = <<"create", "verify", "delete">>
        /\ calls[r][2].status = 404
        /\ result[r].msg = "Gist no accesible"

\* ------------------------------------------------------------------- C9
\* C9 (as stated): every invocation of compile_latex_to_pdf makes three to
\* four outbound calls in total, whatever the outcome of each call, and at
\* most one call to each endpoint.
C9_ThreeToFourCalls ==
    \A r \in Procs :
        Completed(r) =>
            /\ Len(calls[r]) \in 3..4
            /\ \A ep \in {"create", "verify", "compile", "delete"} :
                 Count(r, ep) <= 1

\* C9 (amended): an invocation makes no outbound call when the token is
\* unset or empty, one call (create) when the create call does not return
\* 201, three calls (create, verify, delete) when the verify fetch does not
\* return 200 and four calls otherwise; it never makes more than one call
\* to any endpoint.
C9_CallCount ==
    \A r \in Procs :
        /\ \A ep \in {"create", "verify", "compile", "delete"} :
             Count(r, ep) <= 1
        /\ Completed(r) =>
             Len(calls[r]) =
                IF GITHUB_TOKEN \in {"None", ""} THEN 0
                ELSE IF calls[r][1].status # 201 THEN 1
                ELSE IF calls[r][2].status # 200 THEN 3
                ELSE 4

\* An invocation has ended after a single call, a refused create.
C9_Witness ==
    \E r \in Procs :
        /\ Completed(r) /\ Len(calls[r]) = 1
        /\ calls[r][1].status = 401

\* ------------------------------------------------------------------ C10
\* C10: every failure reply of generate-cv has HTTP status 500, whichever
\* error occurred: the status compile_latex_to_pdf chose (400 for a failed
\* compilation) is replaced by the handler's catch-all.
C10_GenerateCvAlways500 ==
    \A r \in Procs :
        (handler[r] = "generate_cv" /\ pc[r] = "done"
           /\ reply[r].media # "application/pdf") =>
            /\ reply[r].status = 500
            /\ reply[r].field = "detail"
            /\ result[r].kind = "raise" => reply[r].text = Str(result[r])

\* generate-cv has answered a compilation error, raised with status 400.
C10_Witness ==
    \E r \in Procs :
        /\ handler[r] = "generate_cv" /\ pc[r] = "done"
        /\ result[r].type = "HTTPException" /\ result[r].status_code = 400
        /\ reply[r].status = 500

====
